---- MODULE Spec2Model ----
(***************************************************************************)
(* Model of the optimistic task-mutation logic of the TaskList component   *)
(* (frontend/src/components/TaskList.tsx, first revision in the file),     *)
(* the props it receives from AuthContext, the gating TaskItem and         *)
(* NewTaskInput put on its handlers, and the REST resource it talks to.    *)
(*                                                                         *)
(* One action is one event of the single-threaded event loop: an auth      *)
(* state change together with the useEffect it triggers, a UI event        *)
(* together with the synchronous part of its handler, the server handling  *)
(* one request, or the continuation of a handler after its await.          *)
(***************************************************************************)
EXTENDS Integers, Sequences, FiniteSets, TLC

\* ------------------------------------------------------------------ bounds
MaxCalls == 2      \* add/update/toggle/delete invocations explored
MaxAuth == 2       \* auth state changes explored
MaxTime == 2       \* timestamps are 1..MaxTime
MaxSessionCalls == 3 \* invocations explored within one user's session
MaxLen == 3        \* longest text typed into NewTaskInput

Users == {"u1", "u2"}
Tokens == {"t1", "t2"}
Texts == {"A", "B"}
Times == 1..MaxTime
Null == "null"
NoTask == <<>>

\* ------------------------------------------------------------------ state
VARIABLES
    user,          \* useAuth().user?.id, or Null
    accessToken,   \* useAuth().accessToken, or Null
    authLoading,   \* useAuth().loading
    tasks,         \* useState<Task[]> (tasksRef.current follows it)
    editingTask,   \* id of useState editingTask, or NoTask
    fetchingTasks, \* useState(true)
    hasFetched,    \* users u with hasFetchedRef.current[u] truthy
    inflight,      \* fetch() calls that have not run their continuation yet;
                   \* .user is the user the bearer token sent belongs to
    serverTasks,   \* rows of the task resource, in insertion order
    nextId,        \* next id the resource assigns
    nextTemp,      \* number of placeholder ids generated so far
    ncalls,        \* number of add/update/toggle/delete invocations so far
    nauth,         \* number of auth state changes so far
    lastCall,      \* the last handler invocation and the path it returned by
    deleteRequested, \* placeholders deleted while their create was in flight
    serverIdOf,    \* pairs <<placeholder id, id the resource gave its create>>
    callLimit,     \* how many handler invocations this behaviour explores
    taskText,      \* NewTaskInput: useState(initialText), a character sequence
    isExpanded,    \* NewTaskInput: useState(isEditing || initialText.length > 0)
    props,         \* NewTaskInput: its isEditing, initialText and taskId props
    emitted,       \* NewTaskInput: the last handler run, what it read and called
    session,       \* AuthContext: useState<Session | null>, a user or Null
    loading,       \* AuthContext: useState(true)
    initialSessionFetched, \* AuthContext: useState(false)
    signing,       \* AuthContext: a signIn / signUp / signOut call is awaiting
    path,          \* router: location.pathname
    hash,          \* window.location.hash: its type and access_token params
    hashParamsHandled, \* AuthRedirectHandler: useState(false)
    seen,          \* AuthRedirectHandler: the values its effects last ran with
    navigated,     \* "load", then "redirect", or "user" once a page navigated
    hashAtLoad     \* the hash the page was loaded with (history)

\* the state of TaskList and of the resource
listVars == <<user, accessToken, authLoading, tasks, editingTask, fetchingTasks,
              hasFetched, inflight, serverTasks, nextId, nextTemp, ncalls,
              nauth, lastCall, deleteRequested, serverIdOf, callLimit>>

\* the state of one NewTaskInput taken on its own
inputVars == <<taskText, isExpanded, props, emitted>>

\* the state of AuthContextProvider and of AuthRedirectHandler
appVars == <<session, loading, initialSessionFetched, signing, path, hash,
             hashParamsHandled, seen, navigated, hashAtLoad>>

vars == <<listVars, inputVars, appVars>>

\* ---------------------------------------------------------------- helpers
TempId(k) == <<"temp", k>>
ServerId(k) == <<"srv", k>>

\* mutant: no id is taken for a placeholder id
IsTempNever(id) == FALSE

\* id.startsWith("temp-")
IsTemp(id) == id[1] = "temp"

Indices(seq, id) == {i \in 1..Len(seq) : seq[i].id = id}

\* Array.prototype.find / findIndex: the first match, or none
FindIndex(seq, id) ==
    IF Indices(seq, id) = {} THEN 0
    ELSE CHOOSE i \in Indices(seq, id) : \A j \in Indices(seq, id) : i <= j

\* mutant: nothing is filtered out
RemoveIdOmitted(seq, id) == seq

\* prev.filter((task) => task.id !== id)
RemoveId(seq, id) == SelectSeq(seq, LAMBDA t : t.id # id)

\* position of t in a sorted array: after every element that is not later
RECURSIVE InsertSorted(_, _)
InsertSorted(t, seq) ==
    IF seq = <<>> THEN <<t>>
    ELSE IF seq[Len(seq)].created_at <= t.created_at THEN Append(seq, t)
    ELSE Append(InsertSorted(t, SubSeq(seq, 1, Len(seq) - 1)), seq[Len(seq)])

\* mutant: the array is left in the order it was built in
SortByCreatedAtOmitted(seq) == seq

\* arr.sort((a, b) => getTime(a.created_at) - getTime(b.created_at)), stable
RECURSIVE SortByCreatedAt(_)
SortByCreatedAt(seq) ==
    IF seq = <<>> THEN <<>>
    ELSE InsertSorted(seq[Len(seq)],
                      SortByCreatedAt(SubSeq(seq, 1, Len(seq) - 1)))

\* a row of the resource as the client holds it: no status, no original
FromServer(row) ==
    [id |-> row.id, text |-> row.text, completed |-> row.completed,
     user_id |-> row.user_id, created_at |-> row.created_at,
     status |-> "none", original |-> <<>>]

\* { ...task, ...fields }
Spread(task, fields) ==
    [f \in DOMAIN task |-> IF f \in DOMAIN fields THEN fields[f] ELSE task[f]]

\* mutant: the handler does not look at the session
UnauthenticatedUnchecked(u, tok) == FALSE

\* if (!user || !accessToken) return
Unauthenticated(u, tok) == u = Null \/ tok = Null

\* mutant: no item is ever rendered in editing mode
IsEditingNever(task) == FALSE

\* TaskItem's isEditing prop as TaskList computes it
IsEditing(task) == editingTask = task.id \/ task.status = "pending-delete"

Requests(kind) == {r \in inflight : r.kind = kind}

\* what tells two fetch() calls with equal arguments apart
FreeTag ==
    CHOOSE k \in 1..(Cardinality(inflight) + 1) :
        /\ \A r \in inflight : r.n # k
        /\ \A j \in 1..(k - 1) : \E r \in inflight : r.n = j

\* ------------------------------------------------------------------- init
\* rows the resource already holds when the page is opened; the resource
\* returns rows in insertion order, which need not be created_at order
InitialRows ==
    << [id |-> ServerId(1), text |-> "A", completed |-> FALSE,
        user_id |-> "u1", created_at |-> 2],
       [id |-> ServerId(2), text |-> "A", completed |-> FALSE,
        user_id |-> "u2", created_at |-> 1] >>

NoCall == [op |-> "none", id |-> NoTask, path |-> "none"]

\* TaskList as mounted, before the session is known
ListInit ==
    /\ user = Null
    /\ accessToken = Null
    /\ authLoading = TRUE
    /\ tasks = <<>>
    /\ editingTask = NoTask
    /\ fetchingTasks = TRUE
    /\ hasFetched = {}
    /\ inflight = {}
    /\ serverTasks = InitialRows
    /\ nextId = Len(InitialRows) + 1
    /\ nextTemp = 0
    /\ ncalls = 0
    /\ nauth = 0
    /\ lastCall = NoCall
    /\ deleteRequested = {}
    /\ serverIdOf = {}

\* NewTaskInput as mounted by TaskList: not editing, no initial text
NoCallback == [by |-> "none", input |-> <<>>, calls |-> <<>>]

InputInit ==
    /\ props = [isEditing |-> FALSE, initialText |-> <<>>, taskId |-> NoTask]
    /\ taskText = <<>>
    /\ isExpanded = FALSE
    /\ emitted = NoCallback

\* the routes of App and the target of a redirect without a route
Paths == {"/", "/auth", "/dashboard", "/reset-password", "/confirmation"}

\* the type and access_token parameters of the URL fragment
NoHash == [type |-> "none", token |-> FALSE]

Hashes == [type : {"none", "recovery", "signup", "other"}, token : BOOLEAN]

\* the app as loaded at location p with fragment h, before getSession answers
AppLoad(p, h) ==
    /\ session = Null
    /\ loading = TRUE
    /\ initialSessionFetched = FALSE
    /\ signing = FALSE
    /\ path = p
    /\ hash = h
    /\ hashParamsHandled = FALSE
    /\ seen = <<>>
    /\ navigated = "load"
    /\ hashAtLoad = h

Init ==
    /\ ListInit
    /\ InputInit
    /\ AppLoad("/dashboard", NoHash)
    /\ callLimit = MaxCalls

\* ------------------------------------------------------- session provider
\* if (hasFetchedRef.current[userId]) { setFetchingTasks(false); return; }
AlreadyFetched(u) == u \in hasFetched

ListRequest(u) ==
    [n |-> FreeTag, kind |-> "GET", stage |-> "sent", user |-> u,
     resp |-> <<>>]

\* the useEffect with dependencies [user?.id, accessToken, authLoading]
FetchTasksEffect(u, tok, isLoading) ==
    IF ~isLoading /\ u # Null /\ tok # Null
    THEN IF AlreadyFetched(u)
         THEN /\ fetchingTasks' = FALSE
              /\ UNCHANGED <<tasks, hasFetched, inflight>>
         ELSE /\ fetchingTasks' = TRUE
              /\ inflight' = inflight \cup {ListRequest(u)}
              /\ UNCHANGED <<tasks, hasFetched>>
    ELSE IF ~isLoading /\ u = Null
    THEN /\ tasks' = <<>>
         /\ fetchingTasks' = FALSE
         /\ hasFetched' = {}
         /\ UNCHANGED <<inflight>>
    ELSE UNCHANGED <<tasks, fetchingTasks, hasFetched, inflight>>

\* onAuthStateChange / getInitialSession / the finally blocks of signIn and
\* signOut: the session becomes (u, tok) or none, and loading becomes false
AuthStateChange(u, tok) ==
    /\ nauth < MaxAuth
    /\ <<u, tok, FALSE>> # <<user, accessToken, authLoading>>
    /\ user' = u
    /\ accessToken' = tok
    /\ authLoading' = FALSE
    /\ nauth' = nauth + 1
    /\ FetchTasksEffect(u, tok, FALSE)
    /\ UNCHANGED <<editingTask, serverTasks, nextId, nextTemp, ncalls,
                   lastCall, deleteRequested, serverIdOf>>
    /\ UNCHANGED <<callLimit, inputVars, appVars>>

\* signIn / signUp / signOut begin with setLoading(true)
AuthLoadingStart ==
    /\ nauth < MaxAuth
    /\ ~authLoading
    /\ authLoading' = TRUE
    /\ nauth' = nauth + 1
    /\ FetchTasksEffect(user, accessToken, TRUE)
    /\ UNCHANGED <<user, accessToken, editingTask, serverTasks, nextId,
                   nextTemp, ncalls, lastCall, deleteRequested, serverIdOf>>
    /\ UNCHANGED <<callLimit, inputVars, appVars>>

\* useAuth() hands TaskList a new (user, accessToken, loading): the values
\* are taken as the component receives them, whatever provider is mounted
\* above it
UseAuthChanges(u, tok, isLoading) ==
    /\ nauth < MaxAuth
    /\ <<u, tok, isLoading>> # <<user, accessToken, authLoading>>
    /\ user' = u
    /\ accessToken' = tok
    /\ authLoading' = isLoading
    /\ nauth' = nauth + 1
    /\ FetchTasksEffect(u, tok, isLoading)
    /\ UNCHANGED <<editingTask, serverTasks, nextId, nextTemp, ncalls,
                   lastCall, deleteRequested, serverIdOf>>
    /\ UNCHANGED <<callLimit, inputVars, appVars>>

\* ------------------------------------------------------ loadTasks replies
\* const data = await response.json(); setTasks(data.sort(...));
\* hasFetchedRef.current[userId] = true; finally setFetchingTasks(false)
FetchTasksSuccess(r) ==
    /\ r \in inflight /\ r.kind = "GET" /\ r.stage = "ok"
    /\ tasks' = SortByCreatedAt([i \in 1..Len(r.resp) |-> FromServer(r.resp[i])])
    /\ hasFetched' = hasFetched \cup {r.user}
    /\ fetchingTasks' = FALSE
    /\ inflight' = inflight \ {r}
    /\ UNCHANGED <<user, accessToken, authLoading, editingTask, serverTasks,
                   nextId, nextTemp, ncalls, nauth, lastCall,
                   deleteRequested, serverIdOf>>
    /\ UNCHANGED <<callLimit, inputVars, appVars>>

\* mutant: the catch marks the user as fetched
FetchTasksFailureMarksFetched(r) ==
    /\ r \in inflight /\ r.kind = "GET" /\ r.stage = "fail"
    /\ tasks' = <<>>
    /\ hasFetched' = hasFetched \cup {r.user}
    /\ fetchingTasks' = FALSE
    /\ inflight' = inflight \ {r}
    /\ UNCHANGED <<user, accessToken, authLoading, editingTask, serverTasks,
                   nextId, nextTemp, ncalls, nauth, lastCall,
                   deleteRequested, serverIdOf>>
    /\ UNCHANGED <<callLimit, inputVars, appVars>>

\* catch: setTasks([]); hasFetchedRef.current[userId] = false
FetchTasksFailure(r) ==
    /\ r \in inflight /\ r.kind = "GET" /\ r.stage = "fail"
    /\ tasks' = <<>>
    /\ hasFetched' = hasFetched \ {r.user}
    /\ fetchingTasks' = FALSE
    /\ inflight' = inflight \ {r}
    /\ UNCHANGED <<user, accessToken, authLoading, editingTask, serverTasks,
                   nextId, nextTemp, ncalls, nauth, lastCall,
                   deleteRequested, serverIdOf>>
    /\ UNCHANGED <<callLimit, inputVars, appVars>>

\* ------------------------------------------------------------- deleteTask
DeleteRequest(u, id, task, skip, n) ==
    [n |-> n, kind |-> "DELETE", stage |-> "sent", user |-> u,
     id |-> id, taskToDelete |-> task, skip |-> skip, resp |-> <<>>]

\* mutant: the placeholder is removed at once instead of being marked
MarkPendingDeleteRemoves(seq, id) == RemoveId(seq, id)

\* task.id === id ? { ...task, status: "pending-delete" } : task
MarkPendingDelete(seq, id) ==
    [i \in 1..Len(seq) |->
        IF seq[i].id = id THEN Spread(seq[i], [status |-> "pending-delete"])
        ELSE seq[i]]

\* handleDeleteTask(id, skipOptimisticRemove) after its authentication check,
\* up to its await: ref is tasksRef.current, cur the state setTasks updates
HandleDeleteTask(u, id, skip, ref, cur, n) ==
    LET idx == FindIndex(ref, id) IN
    IF idx = 0
    THEN [tasks |-> cur, reqs |-> {}, path |-> "notfound"]
    ELSE IF IsTemp(id) /\ ref[idx].status = "pending-add"
    THEN [tasks |-> MarkPendingDelete(cur, id), reqs |-> {},
          path |-> "deferred"]
    ELSE [tasks |-> IF skip THEN cur ELSE RemoveId(cur, id),
          reqs |-> {DeleteRequest(u, id, ref[idx], skip, n)},
          path |-> "sent"]

\* the delete button of item i (disabled while isEditing)
DeleteTask(i) ==
    /\ ncalls < callLimit
    /\ ~fetchingTasks
    /\ i \in 1..Len(tasks)
    /\ ~IsEditing(tasks[i])
    /\ ncalls' = ncalls + 1
    /\ IF Unauthenticated(user, accessToken)
       THEN /\ lastCall' = [op |-> "delete", id |-> tasks[i].id,
                            path |-> "unauthenticated"]
            /\ UNCHANGED <<tasks, inflight, deleteRequested>>
       ELSE LET d == HandleDeleteTask(user, tasks[i].id, FALSE,
                                      tasks, tasks, FreeTag) IN
            /\ lastCall' = [op |-> "delete", id |-> tasks[i].id,
                            path |-> d.path]
            /\ tasks' = d.tasks
            /\ inflight' = inflight \cup d.reqs
            /\ deleteRequested' =
                 IF /\ d.path \in {"deferred", "sent"}
                    /\ \E r \in Requests("POST") : r.tempId = tasks[i].id
                 THEN deleteRequested \cup {tasks[i].id}
                 ELSE deleteRequested
    /\ UNCHANGED <<user, accessToken, authLoading, editingTask, fetchingTasks,
                   hasFetched, serverTasks, nextId, nextTemp, nauth,
                   serverIdOf>>
    /\ UNCHANGED <<callLimit, inputVars, appVars>>

\* if (skipOptimisticRemove) setTasks(filter)
DeleteTaskSuccess(r) ==
    /\ r \in inflight /\ r.kind = "DELETE" /\ r.stage = "ok"
    /\ tasks' = IF r.skip THEN RemoveId(tasks, r.id) ELSE tasks
    /\ inflight' = inflight \ {r}
    /\ UNCHANGED <<user, accessToken, authLoading, editingTask, fetchingTasks,
                   hasFetched, serverTasks, nextId, nextTemp, ncalls,
                   nauth, lastCall, deleteRequested, serverIdOf>>
    /\ UNCHANGED <<callLimit, inputVars, appVars>>

\* mutant: the task is put back at the end
ReinsertAtEnd(seq, task) == Append(seq, Spread(task, [status |-> "none"]))

\* [...prev, { ...taskToDelete, status: undefined }].sort(...)
Reinsert(seq, task) ==
    SortByCreatedAt(Append(seq, Spread(task, [status |-> "none"])))

\* catch: if (!skipOptimisticRemove) re-add the task
DeleteTaskFailure(r) ==
    /\ r \in inflight /\ r.kind = "DELETE" /\ r.stage = "fail"
    /\ tasks' = IF r.skip THEN tasks ELSE Reinsert(tasks, r.taskToDelete)
    /\ inflight' = inflight \ {r}
    /\ UNCHANGED <<user, accessToken, authLoading, editingTask, fetchingTasks,
                   hasFetched, serverTasks, nextId, nextTemp, ncalls,
                   nauth, lastCall, deleteRequested, serverIdOf>>
    /\ UNCHANGED <<callLimit, inputVars, appVars>>

\* ---------------------------------------------------------------- addTask
OptimisticTask(tempId, text, u, now) ==
    [id |-> tempId, text |-> text, completed |-> FALSE, user_id |-> u,
     created_at |-> now, status |-> "pending-add", original |-> <<>>]

CreateRequest(u, tempId, text, n) ==
    [n |-> n, kind |-> "POST", stage |-> "sent", user |-> u,
     tempId |-> tempId, text |-> text, resp |-> <<>>]

\* the Add button of NewTaskInput (shown when no task is being edited)
AddTask(text, now) ==
    /\ ncalls < callLimit
    /\ ~fetchingTasks
    /\ editingTask = NoTask
    /\ ncalls' = ncalls + 1
    /\ IF Unauthenticated(user, accessToken)
       THEN /\ lastCall' = [op |-> "add", id |-> NoTask,
                            path |-> "unauthenticated"]
            /\ UNCHANGED <<tasks, inflight, nextTemp>>
       ELSE LET tempId == TempId(nextTemp + 1) IN
            /\ lastCall' = [op |-> "add", id |-> tempId, path |-> "sent"]
            /\ tasks' = SortByCreatedAt(
                 Append(tasks, OptimisticTask(tempId, text, user, now)))
            /\ inflight' = inflight \cup
                 {CreateRequest(user, tempId, text, FreeTag)}
            /\ nextTemp' = nextTemp + 1
    /\ UNCHANGED <<user, accessToken, authLoading, editingTask, fetchingTasks,
                   hasFetched, serverTasks, nextId, nauth, deleteRequested,
                   serverIdOf>>
    /\ UNCHANGED <<callLimit, inputVars, appVars>>

\* tempTaskInCurrentState?.status === "pending-delete"
WasPendingDelete(ref, tempId) ==
    /\ FindIndex(ref, tempId) # 0
    /\ ref[FindIndex(ref, tempId)].status = "pending-delete"

\* mutant: the placeholder is left in place
ReplacePlaceholderOmitted(seq, tempId, newTask) == seq

\* task.id === tempId ? { ...newTask, status: undefined } : task, sorted
ReplacePlaceholder(seq, tempId, newTask) ==
    SortByCreatedAt(
        [i \in 1..Len(seq) |-> IF seq[i].id = tempId THEN newTask ELSE seq[i]])

\* const newTask = await response.json(); ...
AddTaskSuccess(r) ==
    /\ r \in inflight /\ r.kind = "POST" /\ r.stage = "ok"
    /\ LET newTask == FromServer(r.resp[1]) IN
       IF WasPendingDelete(tasks, r.tempId)
       THEN LET d == HandleDeleteTask(r.user, newTask.id, TRUE,
                                      tasks, RemoveId(tasks, r.tempId),
                                      FreeTag) IN
            /\ tasks' = d.tasks
            /\ inflight' = (inflight \ {r}) \cup d.reqs
       ELSE /\ tasks' = ReplacePlaceholder(tasks, r.tempId, newTask)
            /\ inflight' = inflight \ {r}
    /\ UNCHANGED <<user, accessToken, authLoading, editingTask, fetchingTasks,
                   hasFetched, serverTasks, nextId, nextTemp, ncalls, nauth,
                   lastCall, deleteRequested, serverIdOf>>
    /\ UNCHANGED <<callLimit, inputVars, appVars>>

\* mutant: the catch block sends the create again
AddTaskFailureRetries(r) ==
    /\ r \in inflight /\ r.kind = "POST" /\ r.stage = "fail"
    /\ tasks' = RemoveId(tasks, r.tempId)
    /\ inflight' = (inflight \ {r}) \cup {[r EXCEPT !.stage = "sent"]}
    /\ UNCHANGED <<user, accessToken, authLoading, editingTask, fetchingTasks,
                   hasFetched, serverTasks, nextId, nextTemp, ncalls,
                   nauth, lastCall, deleteRequested, serverIdOf>>
    /\ UNCHANGED <<callLimit, inputVars, appVars>>

\* catch: setTasks((prev) => prev.filter((task) => task.id !== tempId))
AddTaskFailure(r) ==
    /\ r \in inflight /\ r.kind = "POST" /\ r.stage = "fail"
    /\ tasks' = RemoveId(tasks, r.tempId)
    /\ inflight' = inflight \ {r}
    /\ UNCHANGED <<user, accessToken, authLoading, editingTask, fetchingTasks,
                   hasFetched, serverTasks, nextId, nextTemp, ncalls,
                   nauth, lastCall, deleteRequested, serverIdOf>>
    /\ UNCHANGED <<callLimit, inputVars, appVars>>

\* ------------------------------------------------- updateTask and toggle
UpdateRequest(op, u, id, fields, originalTask, n) ==
    [n |-> n, kind |-> "PUT", op |-> op, stage |-> "sent", user |-> u,
     id |-> id, fields |-> fields,
     originalTask |-> originalTask, resp |-> <<>>]

\* { ...task, ...updatedFields, status: "pending-update", original }
OptimisticUpdate(seq, id, fields, originalTask) ==
    [i \in 1..Len(seq) |->
        IF seq[i].id = id
        THEN Spread(Spread(seq[i], fields),
                    [status |-> "pending-update",
                     original |-> <<originalTask>>])
        ELSE seq[i]]

\* task.id === id ? { ...backendUpdatedTask, status: undefined,
\*                    original: undefined } : task
AdoptServerTask(seq, id, row) ==
    [i \in 1..Len(seq) |-> IF seq[i].id = id THEN FromServer(row) ELSE seq[i]]

\* task.id === id && task.original
\*   ? { ...task.original, status: undefined } : task
RestoreOriginal(seq, id) ==
    [i \in 1..Len(seq) |->
        IF seq[i].id = id /\ seq[i].original # <<>>
        THEN Spread(seq[i].original[1], [status |-> "none"])
        ELSE seq[i]]

\* TaskItem's onClick: sets editingTask unless the item isEditing
EditTask(i) ==
    /\ ~fetchingTasks
    /\ i \in 1..Len(tasks)
    /\ ~IsEditing(tasks[i])
    /\ editingTask' = tasks[i].id
    /\ UNCHANGED <<user, accessToken, authLoading, tasks, fetchingTasks,
                   hasFetched, inflight, serverTasks, nextId, nextTemp, ncalls, nauth, lastCall, deleteRequested, serverIdOf>>
    /\ UNCHANGED <<callLimit, inputVars, appVars>>

\* NewTaskInput's cancel, or its primary action with blank text
CancelEdit ==
    /\ ~fetchingTasks
    /\ editingTask # NoTask
    /\ editingTask' = NoTask
    /\ UNCHANGED <<user, accessToken, authLoading, tasks, fetchingTasks,
                   hasFetched, inflight, serverTasks, nextId, nextTemp, ncalls, nauth, lastCall, deleteRequested, serverIdOf>>
    /\ UNCHANGED <<callLimit, inputVars, appVars>>

\* the Save button of NewTaskInput: onSaveEdit(taskId, text); onCancel()
UpdateTask(newText) ==
    /\ ncalls < callLimit
    /\ ~fetchingTasks
    /\ editingTask # NoTask
    /\ ncalls' = ncalls + 1
    /\ editingTask' = NoTask
    /\ LET id == editingTask
           idx == FindIndex(tasks, id)
           fields == [text |-> newText] IN
       IF Unauthenticated(user, accessToken)
       THEN /\ lastCall' = [op |-> "update", id |-> id,
                            path |-> "unauthenticated"]
            /\ UNCHANGED <<tasks, inflight>>
       ELSE IF idx = 0
       THEN /\ lastCall' = [op |-> "update", id |-> id, path |-> "notfound"]
            /\ UNCHANGED <<tasks, inflight>>
       ELSE /\ tasks' = SortByCreatedAt(
                 OptimisticUpdate(tasks, id, fields, tasks[idx]))
            /\ IF IsTemp(id)
               THEN /\ lastCall' = [op |-> "update", id |-> id,
                                    path |-> "local"]
                    /\ UNCHANGED <<inflight>>
               ELSE /\ lastCall' = [op |-> "update", id |-> id,
                                    path |-> "sent"]
                    /\ inflight' = inflight \cup
                         {UpdateRequest("update", user, id,
                                        fields, tasks[idx], FreeTag)}
    /\ UNCHANGED <<user, accessToken, authLoading, fetchingTasks, hasFetched,
                   serverTasks, nextId, nextTemp, nauth, deleteRequested,
                   serverIdOf>>
    /\ UNCHANGED <<callLimit, inputVars, appVars>>

UpdateTaskSuccess(r) ==
    /\ r \in inflight /\ r.kind = "PUT" /\ r.op = "update" /\ r.stage = "ok"
    /\ tasks' = SortByCreatedAt(AdoptServerTask(tasks, r.id, r.resp[1]))
    /\ inflight' = inflight \ {r}
    /\ UNCHANGED <<user, accessToken, authLoading, editingTask, fetchingTasks,
                   hasFetched, serverTasks, nextId, nextTemp, ncalls,
                   nauth, lastCall, deleteRequested, serverIdOf>>
    /\ UNCHANGED <<callLimit, inputVars, appVars>>

UpdateTaskFailure(r) ==
    /\ r \in inflight /\ r.kind = "PUT" /\ r.op = "update" /\ r.stage = "fail"
    /\ tasks' = SortByCreatedAt(RestoreOriginal(tasks, r.id))
    /\ inflight' = inflight \ {r}
    /\ UNCHANGED <<user, accessToken, authLoading, editingTask, fetchingTasks,
                   hasFetched, serverTasks, nextId, nextTemp, ncalls,
                   nauth, lastCall, deleteRequested, serverIdOf>>
    /\ UNCHANGED <<callLimit, inputVars, appVars>>

\* the checkbox of item i (disabled while isEditing).  The Checkbox component
\* is not part of the sources: its click may or may not bubble to the item's
\* onClick, which then calls onEdit(task) after the toggle handler
ToggleComplete(i, bubbles) ==
    /\ ncalls < callLimit
    /\ ~fetchingTasks
    /\ i \in 1..Len(tasks)
    /\ ~IsEditing(tasks[i])
    /\ ncalls' = ncalls + 1
    /\ editingTask' = IF bubbles THEN tasks[i].id ELSE editingTask
    /\ LET id == tasks[i].id
           idx == FindIndex(tasks, id)
           fields == [completed |-> ~tasks[i].completed] IN
       IF Unauthenticated(user, accessToken)
       THEN /\ lastCall' = [op |-> "toggle", id |-> id,
                            path |-> "unauthenticated"]
            /\ UNCHANGED <<tasks, inflight>>
       ELSE /\ tasks' = OptimisticUpdate(tasks, id, fields, tasks[idx])
            /\ IF IsTemp(id)
               THEN /\ lastCall' = [op |-> "toggle", id |-> id,
                                    path |-> "local"]
                    /\ UNCHANGED <<inflight>>
               ELSE /\ lastCall' = [op |-> "toggle", id |-> id,
                                    path |-> "sent"]
                    /\ inflight' = inflight \cup
                         {UpdateRequest("toggle", user, id,
                                        fields, tasks[idx], FreeTag)}
    /\ UNCHANGED <<user, accessToken, authLoading, fetchingTasks, hasFetched,
                   serverTasks, nextId, nextTemp, nauth, deleteRequested,
                   serverIdOf>>
    /\ UNCHANGED <<callLimit, inputVars, appVars>>

ToggleCompleteSuccess(r) ==
    /\ r \in inflight /\ r.kind = "PUT" /\ r.op = "toggle" /\ r.stage = "ok"
    /\ tasks' = SortByCreatedAt(AdoptServerTask(tasks, r.id, r.resp[1]))
    /\ inflight' = inflight \ {r}
    /\ UNCHANGED <<user, accessToken, authLoading, editingTask, fetchingTasks,
                   hasFetched, serverTasks, nextId, nextTemp, ncalls,
                   nauth, lastCall, deleteRequested, serverIdOf>>
    /\ UNCHANGED <<callLimit, inputVars, appVars>>

\* the toggle's catch restores without sorting
ToggleCompleteFailure(r) ==
    /\ r \in inflight /\ r.kind = "PUT" /\ r.op = "toggle" /\ r.stage = "fail"
    /\ tasks' = RestoreOriginal(tasks, r.id)
    /\ inflight' = inflight \ {r}
    /\ UNCHANGED <<user, accessToken, authLoading, editingTask, fetchingTasks,
                   hasFetched, serverTasks, nextId, nextTemp, ncalls,
                   nauth, lastCall, deleteRequested, serverIdOf>>
    /\ UNCHANGED <<callLimit, inputVars, appVars>>

\* ------------------------------------------------------ the task resource
RowIndex(u, id) ==
    LET S == {i \in 1..Len(serverTasks) :
                serverTasks[i].id = id /\ serverTasks[i].user_id = u} IN
    IF S = {} THEN 0 ELSE CHOOSE i \in S : TRUE

Respond(r, stage, resp) ==
    inflight' = (inflight \ {r}) \cup
                {[f \in DOMAIN r |-> IF f = "stage" THEN stage
                                     ELSE IF f = "resp" THEN resp
                                     ELSE r[f]]}

\* GET /tasks/: the rows of the token's user
ServerList(r) ==
    /\ r \in inflight /\ r.kind = "GET" /\ r.stage = "sent"
    /\ Respond(r, "ok", SelectSeq(serverTasks, LAMBDA row : row.user_id = r.user))
    /\ UNCHANGED <<user, accessToken, authLoading, tasks, editingTask,
                   fetchingTasks, hasFetched, serverTasks, nextId, nextTemp,
                   ncalls, nauth, lastCall, deleteRequested, serverIdOf>>
    /\ UNCHANGED <<callLimit, inputVars, appVars>>

\* POST /tasks/: a new row with a server id and the server's created_at
ServerCreate(r, now) ==
    /\ r \in inflight /\ r.kind = "POST" /\ r.stage = "sent"
    /\ LET row == [id |-> ServerId(nextId), text |-> r.text,
                   completed |-> FALSE, user_id |-> r.user,
                   created_at |-> now] IN
       /\ serverTasks' = Append(serverTasks, row)
       /\ Respond(r, "ok", <<row>>)
       /\ serverIdOf' = serverIdOf \cup {<<r.tempId, row.id>>}
    /\ nextId' = nextId + 1
    /\ UNCHANGED <<user, accessToken, authLoading, tasks, editingTask,
                   fetchingTasks, hasFetched, nextTemp, ncalls, nauth,
                   lastCall, deleteRequested>>
    /\ UNCHANGED <<callLimit, inputVars, appVars>>

\* PUT /tasks/{id}: 404 unless the row exists and belongs to the user
ServerUpdate(r) ==
    /\ r \in inflight /\ r.kind = "PUT" /\ r.stage = "sent"
    /\ LET i == RowIndex(r.user, r.id) IN
       IF i = 0
       THEN /\ Respond(r, "fail", <<>>)
            /\ UNCHANGED serverTasks
       ELSE LET row == Spread(serverTasks[i], r.fields) IN
            /\ serverTasks' = [serverTasks EXCEPT ![i] = row]
            /\ Respond(r, "ok", <<row>>)
    /\ UNCHANGED <<user, accessToken, authLoading, tasks, editingTask,
                   fetchingTasks, hasFetched, nextId, nextTemp, ncalls,
                   nauth, lastCall, deleteRequested, serverIdOf>>
    /\ UNCHANGED <<callLimit, inputVars, appVars>>

\* DELETE /tasks/{id}: 404 unless the row exists and belongs to the user
ServerDelete(r) ==
    /\ r \in inflight /\ r.kind = "DELETE" /\ r.stage = "sent"
    /\ LET i == RowIndex(r.user, r.id) IN
       IF i = 0
       THEN /\ Respond(r, "fail", <<>>)
            /\ UNCHANGED serverTasks
       ELSE /\ serverTasks' = SelectSeq(serverTasks, LAMBDA row : row.id # r.id)
            /\ Respond(r, "ok", <<>>)
    /\ UNCHANGED <<user, accessToken, authLoading, tasks, editingTask,
                   fetchingTasks, hasFetched, nextId, nextTemp, ncalls,
                   nauth, lastCall, deleteRequested, serverIdOf>>
    /\ UNCHANGED <<callLimit, inputVars, appVars>>

\* the request does not reach the resource, or is rejected (401, 5xx)
RequestFails(r) ==
    /\ r \in inflight /\ r.stage = "sent"
    /\ Respond(r, "fail", <<>>)
    /\ UNCHANGED <<user, accessToken, authLoading, tasks, editingTask,
                   fetchingTasks, hasFetched, serverTasks, nextId, nextTemp,
                   ncalls, nauth, lastCall, deleteRequested, serverIdOf>>
    /\ UNCHANGED <<callLimit, inputVars, appVars>>

\* ------------------------------------------------------------------- next
Next ==
    \/ \E u \in Users, tok \in Tokens : AuthStateChange(u, tok)
    \/ AuthStateChange(Null, Null)
    \/ AuthLoadingStart
    \/ \E r \in inflight : FetchTasksSuccess(r)
    \/ \E r \in inflight : FetchTasksFailure(r)
    \/ \E text \in Texts, now \in Times : AddTask(text, now)
    \/ \E r \in inflight : AddTaskSuccess(r)
    \/ \E r \in inflight : AddTaskFailure(r)
    \/ \E i \in 1..Len(tasks) : EditTask(i)
    \/ CancelEdit
    \/ \E text \in Texts : UpdateTask(text)
    \/ \E r \in inflight : UpdateTaskSuccess(r)
    \/ \E r \in inflight : UpdateTaskFailure(r)
    \/ \E i \in 1..Len(tasks), bubbles \in BOOLEAN : ToggleComplete(i, bubbles)
    \/ \E r \in inflight : ToggleCompleteSuccess(r)
    \/ \E r \in inflight : ToggleCompleteFailure(r)
    \/ \E i \in 1..Len(tasks) : DeleteTask(i)
    \/ \E r \in inflight : DeleteTaskSuccess(r)
    \/ \E r \in inflight : DeleteTaskFailure(r)
    \/ \E r \in inflight : ServerList(r)
    \/ \E r \in inflight, now \in Times : ServerCreate(r, now)
    \/ \E r \in inflight : ServerUpdate(r)
    \/ \E r \in inflight : ServerDelete(r)
    \/ \E r \in inflight : RequestFails(r)

Spec == Init /\ [][Next]_vars

\* ------------------------------------------------- one user's session
\* The same component where one user signs in and stays signed in (the
\* token may be refreshed) and adds, completes and deletes tasks without
\* opening the editor; more handler invocations are followed.
SessionUser == "u1"

SessionInit ==
    /\ ListInit
    /\ InputInit
    /\ AppLoad("/dashboard", NoHash)
    /\ callLimit = MaxSessionCalls

SessionNext ==
    \/ \E tok \in Tokens : AuthStateChange(SessionUser, tok)
    \/ \E r \in inflight : FetchTasksSuccess(r)
    \/ \E r \in inflight : FetchTasksFailure(r)
    \/ \E now \in Times : AddTask("A", now)
    \/ \E r \in inflight : AddTaskSuccess(r)
    \/ \E r \in inflight : AddTaskFailure(r)
    \/ \E i \in 1..Len(tasks) : ToggleComplete(i, FALSE)
    \/ \E r \in inflight : ToggleCompleteSuccess(r)
    \/ \E r \in inflight : ToggleCompleteFailure(r)
    \/ \E i \in 1..Len(tasks) : DeleteTask(i)
    \/ \E r \in inflight : DeleteTaskSuccess(r)
    \/ \E r \in inflight : DeleteTaskFailure(r)
    \/ \E r \in inflight : ServerList(r)
    \/ \E r \in inflight, now \in Times : ServerCreate(r, now)
    \/ \E r \in inflight : ServerUpdate(r)
    \/ \E r \in inflight : ServerDelete(r)
    \/ \E r \in inflight : RequestFails(r)

SessionSpec == SessionInit /\ [][SessionNext]_vars

\* TaskList under any provider: useAuth() may yield every combination of
\* user, token and loading; one user, the list operations of a session
ComponentNext ==
    \/ \E u \in {SessionUser, Null}, tok \in Tokens \cup {Null},
          isLoading \in BOOLEAN : UseAuthChanges(u, tok, isLoading)
    \/ \E r \in inflight : FetchTasksSuccess(r)
    \/ \E r \in inflight : FetchTasksFailure(r)
    \/ \E now \in Times : AddTask("A", now)
    \/ \E r \in inflight : AddTaskSuccess(r)
    \/ \E r \in inflight : AddTaskFailure(r)
    \/ \E i \in 1..Len(tasks) : DeleteTask(i)
    \/ \E r \in inflight : DeleteTaskSuccess(r)
    \/ \E r \in inflight : DeleteTaskFailure(r)
    \/ \E r \in inflight : ServerList(r)
    \/ \E r \in inflight, now \in Times : ServerCreate(r, now)
    \/ \E r \in inflight : ServerDelete(r)
    \/ \E r \in inflight : RequestFails(r)

ComponentSpec == Init /\ [][ComponentNext]_vars

\* ------------------------------------------------------------ NewTaskInput
\* One NewTaskInput taken on its own: its parent is the environment, which
\* re-renders it with other props and receives its callbacks.
Chars == {" ", "a"}
Whitespace == {" "}

\* what the textarea can hold
InputTexts == UNION {[1..n -> Chars] : n \in 0..MaxLen}

\* String.prototype.trim: leading and trailing white space removed
RECURSIVE TrimStart(_)
TrimStart(s) ==
    IF s = <<>> THEN s
    ELSE IF Head(s) \in Whitespace THEN TrimStart(Tail(s))
    ELSE s

RECURSIVE TrimEnd(_)
TrimEnd(s) ==
    IF s = <<>> THEN s
    ELSE IF s[Len(s)] \in Whitespace THEN TrimEnd(SubSeq(s, 1, Len(s) - 1))
    ELSE s

\* mutant: the text is used as typed
TrimOmitted(s) == s

Trim(s) == TrimEnd(TrimStart(s))

\* const isTyping = taskText.trim().length > 0
IsTyping == Len(Trim(taskText)) > 0

\* disabled={isEditing && !isTyping} on the Save / Add / Ok button
PrimaryDisabled == props.isEditing /\ ~IsTyping

Callback(fn, id, text) == [fn |-> fn, id |-> id, text |-> text]

OnCancel == Callback("onCancel", NoTask, <<>>)

\* what a handler leaves behind: the text it read and the callbacks it made
Handled(by, calls) == [by |-> by, input |-> taskText, calls |-> calls]

\* the props TaskList passes: editingTask's text and id, or none
InputProps ==
    {[isEditing |-> FALSE, initialText |-> <<>>, taskId |-> NoTask]}
    \cup {[isEditing |-> TRUE, initialText |-> t, taskId |-> id] :
            t \in InputTexts, id \in {ServerId(1), TempId(1)}}

\* a re-render with other props; the effect with dependencies
\* [isEditing, initialText] resets the text and the expansion
PropsChange(p) ==
    /\ p # props
    /\ props' = p
    /\ IF <<p.isEditing, p.initialText>> # <<props.isEditing, props.initialText>>
       THEN /\ isExpanded' = (p.isEditing \/ Len(p.initialText) > 0)
            /\ taskText' = p.initialText
       ELSE UNCHANGED <<isExpanded, taskText>>
    /\ emitted' = Handled("effect", <<>>)
    /\ UNCHANGED <<listVars, appVars>>

\* handleTextareaInput: setTaskText(e.target.value)
TextareaInput(value) ==
    /\ value # taskText
    /\ taskText' = value
    /\ emitted' = Handled("input", <<>>)
    /\ UNCHANGED <<isExpanded, props, listVars, appVars>>

\* onFocus / onClick of the textarea
TextareaFocus ==
    /\ ~isExpanded
    /\ isExpanded' = TRUE
    /\ emitted' = Handled("focus", <<>>)
    /\ UNCHANGED <<taskText, props, listVars, appVars>>

\* onBlur of the textarea
TextareaBlur ==
    /\ ~props.isEditing /\ Trim(taskText) = <<>> /\ isExpanded
    /\ isExpanded' = FALSE
    /\ emitted' = Handled("blur", <<>>)
    /\ UNCHANGED <<taskText, props, listVars, appVars>>

\* handleCancelInternal: setTaskText(""); setIsExpanded(false); onCancel()
HandleCancelInternal(by) ==
    /\ taskText' = <<>>
    /\ isExpanded' = FALSE
    /\ emitted' = Handled(by, <<OnCancel>>)

\* the Cancel button, rendered while expanded
CancelButton ==
    /\ isExpanded
    /\ HandleCancelInternal("cancel")
    /\ UNCHANGED <<props, listVars, appVars>>

\* the mousedown listener on the document
ClickOutside ==
    /\ isExpanded /\ ~props.isEditing /\ Trim(taskText) = <<>>
    /\ HandleCancelInternal("outside")
    /\ UNCHANGED <<props, listVars, appVars>>

\* handlePrimaryAction, from the Save / Add / Ok button (rendered while
\* expanded, and disabled while editing with blank text)
PrimaryAction ==
    /\ isExpanded
    /\ ~PrimaryDisabled
    /\ IF Trim(taskText) # <<>>
       THEN /\ taskText' = <<>>
            /\ isExpanded' = FALSE
            /\ emitted' = Handled("primary",
                 << IF props.isEditing
                    THEN Callback("onSaveEdit", props.taskId, Trim(taskText))
                    ELSE Callback("onAddTask", NoTask, Trim(taskText)),
                    OnCancel >>)
       ELSE HandleCancelInternal("primary")
    /\ UNCHANGED <<props, listVars, appVars>>

InputNext ==
    \/ \E p \in InputProps : PropsChange(p)
    \/ \E value \in InputTexts : TextareaInput(value)
    \/ TextareaFocus
    \/ TextareaBlur
    \/ CancelButton
    \/ ClickOutside
    \/ PrimaryAction

InputSpec == Init /\ [][InputNext]_vars

\* ------------------------------------- AuthContextProvider and the routes
\* The session provider and AuthRedirectHandler taken on their own: the
\* auth service, the pages and the user are the environment.
SessionUsers == {"u1"}

\* the dependencies the effects of AuthRedirectHandler watch
Deps == <<loading, session, path, hashParamsHandled>>

\* every effect has run with the values now rendered (the effects of a
\* commit run before the next event is handled)
Settled == seen = Deps

\* mutant: loading ends only when getSession answered without an error
GetSessionSettlesInTry(outcome) ==
    /\ Settled
    /\ ~initialSessionFetched
    /\ session' = IF outcome = "error" THEN session ELSE outcome
    /\ loading' = IF outcome = "error" THEN loading ELSE FALSE
    /\ initialSessionFetched' = TRUE
    /\ UNCHANGED <<signing, path, hash, hashParamsHandled, seen, navigated,
                   hashAtLoad>>
    /\ UNCHANGED <<listVars, inputVars>>

\* getInitialSession after its await: outcome is the session found, Null
\* for none, or "error"; finally setLoading(false), setInitialSessionFetched
GetSessionSettles(outcome) ==
    /\ Settled
    /\ ~initialSessionFetched
    /\ session' = IF outcome = "error" THEN session ELSE outcome
    /\ loading' = FALSE
    /\ initialSessionFetched' = TRUE
    /\ UNCHANGED <<signing, path, hash, hashParamsHandled, seen, navigated,
                   hashAtLoad>>
    /\ UNCHANGED <<listVars, inputVars>>

\* the onAuthStateChange callback
AuthEvent(event, s) ==
    /\ Settled
    /\ session' = s
    /\ loading' = IF event # "INITIAL_SESSION" \/ initialSessionFetched
                  THEN FALSE ELSE loading
    /\ UNCHANGED <<initialSessionFetched, signing, path, hash,
                   hashParamsHandled, seen, navigated, hashAtLoad>>
    /\ UNCHANGED <<listVars, inputVars>>

\* signIn / signUp / signOut up to their await (the pages that call them
\* are rendered only while not loading)
SignStart ==
    /\ Settled
    /\ ~loading /\ ~signing
    /\ loading' = TRUE
    /\ signing' = TRUE
    /\ UNCHANGED <<session, initialSessionFetched, path, hash,
                   hashParamsHandled, seen, navigated, hashAtLoad>>
    /\ UNCHANGED <<listVars, inputVars>>

\* their finally: setLoading(false); signUp may set the session it got
SignSettles(s) ==
    /\ Settled
    /\ signing
    /\ session' = s
    /\ loading' = FALSE
    /\ signing' = FALSE
    /\ UNCHANGED <<initialSessionFetched, path, hash, hashParamsHandled, seen,
                   navigated, hashAtLoad>>
    /\ UNCHANGED <<listVars, inputVars>>

\* a page's own navigate() or <Link> (pages are rendered while not loading)
PageNavigates(p) ==
    /\ Settled
    /\ ~loading
    /\ p # path
    /\ path' = p
    /\ hash' = NoHash
    /\ navigated' = "user"
    /\ UNCHANGED <<session, loading, initialSessionFetched, signing,
                   hashParamsHandled, seen, hashAtLoad>>
    /\ UNCHANGED <<listVars, inputVars>>

NoNav == "none"

\* clearHashIfSafe
ClearHashIfSafe(h) ==
    IF (h.token \/ h.type # "none") /\ h.type # "recovery" THEN NoHash ELSE h

\* the first useEffect of AuthRedirectHandler, run with loading l,
\* hashParamsHandled handled, fragment h, session s and pathname p
HashEffect(l, handled, h, s, p) ==
    IF l \/ handled
    THEN [nav |-> NoNav, hash |-> h, handled |-> handled]
    ELSE IF h.type = "recovery"
    THEN [nav |-> IF p # "/reset-password" THEN "/reset-password" ELSE NoNav,
          hash |-> h, handled |-> TRUE]
    ELSE IF h.type = "signup" /\ s # Null
    THEN [nav |-> IF p # "/confirmation" THEN "/confirmation" ELSE NoNav,
          hash |-> ClearHashIfSafe(h), handled |-> TRUE]
    ELSE IF h.token /\ s # Null /\ h.type = "none"
    THEN [nav |-> IF p \in {"/auth", "/"} THEN "/dashboard" ELSE NoNav,
          hash |-> ClearHashIfSafe(h), handled |-> TRUE]
    ELSE IF ~h.token /\ h.type = "none"
    THEN [nav |-> NoNav, hash |-> h, handled |-> TRUE]
    ELSE [nav |-> NoNav, hash |-> h, handled |-> handled]

\* mutant: a signed-in session is left where it is
RedirectEffectForGuestsOnly(l, s, p) ==
    IF l \/ s # Null THEN NoNav
    ELSE IF p = "/" \/ p = "/dashboard" THEN "/auth"
    ELSE NoNav

\* the second useEffect of AuthRedirectHandler: the target of its last
\* navigate call, or none
RedirectEffect(l, s, p) ==
    IF l THEN NoNav
    ELSE IF s # Null
    THEN IF p = "/" \/ p = "/auth" THEN "/dashboard" ELSE NoNav
    ELSE IF p = "/" THEN "/auth"
    ELSE IF p = "/dashboard" THEN "/auth"
    ELSE NoNav

\* a commit of AuthRedirectHandler: the effects whose dependencies changed
\* run in order with the values of this render; navigate replaces the
\* location (the fragment is not carried over), so the last call decides
RunEffects ==
    /\ ~Settled
    /\ LET redirectDue == seen = <<>> \/
                          <<seen[1], seen[2], seen[3]>> # <<loading, session, path>>
           h == HashEffect(loading, hashParamsHandled, hash, session, path)
           r == IF redirectDue THEN RedirectEffect(loading, session, path)
                ELSE NoNav
           target == IF r # NoNav THEN r ELSE h.nav IN
       /\ path' = IF target # NoNav THEN target ELSE path
       /\ hash' = IF target # NoNav THEN NoHash ELSE h.hash
       /\ navigated' = IF target # NoNav /\ navigated # "user"
                       THEN "redirect" ELSE navigated
       /\ hashParamsHandled' = h.handled
    /\ seen' = Deps
    /\ UNCHANGED <<session, loading, initialSessionFetched, signing,
                   hashAtLoad>>
    /\ UNCHANGED <<listVars, inputVars>>

AppInit ==
    /\ ListInit
    /\ InputInit
    /\ callLimit = MaxCalls
    /\ \E p \in Paths, h \in Hashes : AppLoad(p, h)

AppNext ==
    \/ \E outcome \in SessionUsers \cup {Null, "error"} :
         GetSessionSettles(outcome)
    \/ \E event \in {"INITIAL_SESSION", "SIGNED_IN"},
          s \in SessionUsers \cup {Null} : AuthEvent(event, s)
    \/ SignStart
    \/ \E s \in SessionUsers \cup {Null} : SignSettles(s)
    \/ \E p \in Paths : PageNavigates(p)
    \/ RunEffects

AppSpec == AppInit /\ [][AppNext]_vars

\* ================================================================= claims
HasId(seq, id) == Indices(seq, id) # {}

\* the continuation of request r runs in this step
Settles(r) == r \in inflight /\ r \notin inflight'

\* C1: in the add/delete race (deleteTask was called on the placeholder
\* while its create was in flight), the step in which the create resolves
\* successfully issues a DELETE request for the id the resource assigned.
C1_RaceIssuesDelete ==
    [][\A r \in inflight :
         (r.kind = "POST" /\ r.stage = "ok" /\ Settles(r)
            /\ r.tempId \in deleteRequested)
         => \E d \in inflight' : d.kind = "DELETE" /\ d.id = r.resp[1].id]_vars

\* C2: a task whose placeholder was deleted while its create was in flight
\* is never in the collection under the id the resource assigned to it.
C2_RacedTaskNeverVisible ==
    \A p \in serverIdOf : p[1] \in deleteRequested => ~HasId(tasks, p[2])

\* C3: when the remote call of an updateTask or toggleComplete fails, the
\* task shows the text and completed value it had immediately before that
\* optimistic update was applied, and its status is none.
C3_RollbackRestoresPriorFields ==
    [][\A r \in inflight :
         (r.kind = "PUT" /\ r.stage = "fail" /\ Settles(r))
         => \A i \in 1..Len(tasks') :
              tasks'[i].id = r.id
              => /\ tasks'[i].text = r.originalTask.text
                 /\ tasks'[i].completed = r.originalTask.completed
                 /\ tasks'[i].status = "none"]_vars

\* C4: the collection never holds two tasks with the same id.
C4_OneTaskPerId ==
    \A i, j \in 1..Len(tasks) : tasks[i].id = tasks[j].id => i = j

\* C5: an update, toggle or delete is started on a task only when the task
\* has no pending status, except a delete of a placeholder that is
\* pending-add.
C5_PerTaskMutualExclusion ==
    [][(ncalls' = ncalls + 1
          /\ lastCall'.op \in {"update", "toggle", "delete"}
          /\ lastCall'.path \in {"sent", "local", "deferred"})
       => LET idx == FindIndex(tasks, lastCall'.id) IN
          \/ tasks[idx].status = "none"
          \/ /\ lastCall'.op = "delete"
             /\ IsTemp(lastCall'.id)
             /\ tasks[idx].status = "pending-add"]_vars

\* C6: a token refresh (same user, another token) issues no list request
\* when the user's list is already loaded or its list request has been
\* answered successfully and the answer is still on its way.
C6_FetchOncePerUser ==
    [][(/\ user # Null /\ user' = user
        /\ accessToken # Null /\ accessToken' # Null
        /\ accessToken' # accessToken
        /\ ~authLoading /\ ~authLoading'
        /\ \/ user \in hasFetched
           \/ \E r \in Requests("GET") : r.user = user /\ r.stage = "ok")
       => \A r \in inflight' : r.kind = "GET" => r \in inflight]_vars

\* C7: the collection is ordered by ascending created_at in every state.
C7_SortedByCreatedAt ==
    \A i, j \in 1..Len(tasks) :
        i < j => tasks[i].created_at <= tasks[j].created_at

\* C7 witness: a created task confirmed by the resource was moved in front
\* of an older entry by the sort that follows the replacement.
C7_Witness ==
    /\ Len(tasks) = 2
    /\ tasks[2].id = ServerId(1)
    /\ \E p \in serverIdOf : tasks[1].id = p[2]
    /\ tasks[1].created_at < tasks[2].created_at

\* C8: while no user is signed in and auth is not loading, the collection
\* is empty.
C8_LoggedOutMeansNoTasks ==
    (user = Null /\ ~authLoading) => tasks = <<>>

\* C9: while a user is signed in and no list request is in flight, every
\* task of the collection belongs to that user.
C9_OwnerIsSignedInUser ==
    (user # Null /\ ~authLoading /\ Requests("GET") = {})
    => \A i \in 1..Len(tasks) : tasks[i].user_id = user

\* C10: an add, update, toggle or delete invoked while the user or the
\* token is absent changes neither the collection nor the requests in
\* flight.
C10_UnauthenticatedNoOp ==
    [][(ncalls' = ncalls + 1 /\ (user = Null \/ accessToken = Null))
       => (tasks' = tasks /\ inflight' = inflight)]_vars

\* C10 witness: a mutation was invoked without a session and turned away,
\* with tasks in the collection it could have changed.
C10_Witness ==
    /\ lastCall.path = "unauthenticated"
    /\ lastCall.op \in {"toggle", "delete"}
    /\ user = Null
    /\ tasks # <<>>

\* C11: no DELETE request is ever issued whose target is a placeholder id,
\* whatever adds, toggles and deletes were applied to the task while its
\* create was in flight.
C11_NoDeleteForPlaceholder ==
    \A r \in inflight : r.kind = "DELETE" => r.id[1] # "temp"

\* C12: when a create succeeds for a placeholder that updateTask or
\* toggleComplete changed while the create was in flight, the task that
\* replaces the placeholder shows the locally edited text and completed
\* value.
C12_EditCarriedForward ==
    [][\A r \in inflight :
         (r.kind = "POST" /\ r.stage = "ok" /\ Settles(r))
         => \A i \in 1..Len(tasks) :
              (tasks[i].id = r.tempId /\ tasks[i].status = "pending-update")
              => \E j \in 1..Len(tasks') :
                   /\ tasks'[j].id = r.resp[1].id
                   /\ tasks'[j].text = tasks[i].text
                   /\ tasks'[j].completed = tasks[i].completed]_vars

\* C13: the collection never contains both a placeholder and the task with
\* the id the resource returned for that placeholder's create request.
C13_PlaceholderNotWithServerTask ==
    \A p \in serverIdOf : ~(HasId(tasks, p[1]) /\ HasId(tasks, p[2]))

\* C14: when a create succeeds and deleteTask was not called on its
\* placeholder while it was in flight, the collection afterwards holds
\* exactly one task with the id the resource returned, that task has no
\* pending status, and no task with the placeholder id remains.
C14_AddSuccess ==
    [][\A r \in inflight :
         (r.kind = "POST" /\ r.stage = "ok" /\ Settles(r)
            /\ r.tempId \notin deleteRequested)
         => /\ Cardinality(Indices(tasks', r.resp[1].id)) = 1
            /\ \A i \in Indices(tasks', r.resp[1].id) :
                 tasks'[i].status = "none"
            /\ ~HasId(tasks', r.tempId)]_vars

\* C14 amended: when a create succeeds, deleteTask was not called on its
\* placeholder while it was in flight, and the placeholder is still in the
\* collection when the response arrives, the collection afterwards holds
\* exactly one task with the id the resource returned, that task has no
\* pending status, and no task with the placeholder id remains.
C14_AddSuccessOfPresentPlaceholder ==
    [][\A r \in inflight :
         (r.kind = "POST" /\ r.stage = "ok" /\ Settles(r)
            /\ r.tempId \notin deleteRequested
            /\ \E i \in 1..Len(tasks) : tasks[i].id = r.tempId)
         => /\ Cardinality({j \in 1..Len(tasks') :
                              tasks'[j].id = r.resp[1].id}) = 1
            /\ \A j \in 1..Len(tasks') :
                 tasks'[j].id = r.resp[1].id => tasks'[j].status = "none"
            /\ \A j \in 1..Len(tasks') : tasks'[j].id # r.tempId]_vars

\* C14 witness: a create was confirmed with nothing else having touched the
\* collection since the add (one list request, answered before the add):
\* the task is in the collection under its server id.
C14_Witness ==
    /\ nauth = 1
    /\ user # Null
    /\ Requests("POST") = {}
    /\ \E p \in serverIdOf :
         /\ p[1] \notin deleteRequested
         /\ HasId(tasks, p[2])
         /\ tasks[FindIndex(tasks, p[2])].status = "none"

\* C15: when the DELETE request for an optimistically removed task fails,
\* the task is back in the collection with the text, completed value,
\* owner and created_at it had when deleteTask was called, with no pending
\* status, at a position that respects created_at order.
C15_DeleteFailureRestores ==
    [][\A r \in inflight :
         (r.kind = "DELETE" /\ r.stage = "fail" /\ Settles(r) /\ ~r.skip)
         => \E j \in 1..Len(tasks') :
              /\ tasks'[j].id = r.id
              /\ tasks'[j].text = r.taskToDelete.text
              /\ tasks'[j].completed = r.taskToDelete.completed
              /\ tasks'[j].user_id = r.taskToDelete.user_id
              /\ tasks'[j].created_at = r.taskToDelete.created_at
              /\ tasks'[j].status = "none"
              /\ \A k \in 1..Len(tasks') :
                   /\ k < j => tasks'[k].created_at <= tasks'[j].created_at
                   /\ k > j => tasks'[k].created_at >= tasks'[j].created_at]_vars

\* C15 witness: the last invocation sent a DELETE that has since failed (the
\* only list response came before it), and the task is back in front of a
\* later task.
C15_Witness ==
    /\ nauth = 1
    /\ lastCall.op = "delete"
    /\ lastCall.path = "sent"
    /\ Requests("DELETE") = {}
    /\ Len(tasks) = 2
    /\ tasks[1].id = lastCall.id
    /\ tasks[1].status = "none"
    /\ tasks[1].created_at < tasks[2].created_at

\* C16: when a create request fails, the placeholder is no longer in the
\* collection and every other task is as it was and where it was, also
\* when the placeholder had been marked pending-delete or edited.
C16_AddFailureRollsBack ==
    [][\A r \in inflight :
         (r.kind = "POST" /\ r.stage = "fail" /\ Settles(r))
         => /\ \A j \in 1..Len(tasks') : tasks'[j].id # r.tempId
            /\ tasks' = SelectSeq(tasks, LAMBDA t : t.id # r.tempId)]_vars

\* C16 witness: deleteTask was deferred on a placeholder, its create then
\* failed (the resource never assigned it an id), and the placeholder is
\* gone while the other tasks remain.
C16_Witness ==
    /\ nauth = 1
    /\ lastCall.op = "delete"
    /\ lastCall.path = "deferred"
    /\ Requests("POST") = {}
    /\ \A p \in serverIdOf : p[1] # lastCall.id
    /\ ~HasId(tasks, lastCall.id)
    /\ tasks # <<>>

\* C17: when the list request of a user fails, the collection becomes
\* empty, loading ends and the user is no longer marked as fetched; and
\* whenever the effect runs for a signed-in user who is not marked as
\* fetched, it issues a new list request for that user.
C17_LoadFailure ==
    [][/\ \A r \in inflight :
            (r.kind = "GET" /\ r.stage = "fail" /\ Settles(r))
            => /\ tasks' = <<>>
               /\ ~fetchingTasks'
               /\ r.user \notin hasFetched'
       /\ (/\ <<user', accessToken', authLoading'>>
                # <<user, accessToken, authLoading>>
           /\ user' # Null /\ accessToken' # Null /\ ~authLoading'
           /\ user' \notin hasFetched)
          => \E r \in inflight' \ inflight :
               r.kind = "GET" /\ r.user = user' /\ r.stage = "sent"]_vars

\* C17 witness: the only list request issued so far has failed: the user is
\* signed in, nothing is in flight, nothing is shown and nobody is marked
\* as fetched.
C17_Witness ==
    /\ nauth = 1
    /\ user # Null
    /\ ~authLoading
    /\ inflight = {}
    /\ tasks = <<>>
    /\ ~fetchingTasks
    /\ hasFetched = {}

\* C18: on a successful list response the collection becomes exactly the
\* fetched rows (nothing else is kept), each without pending status, in
\* ascending created_at order, and the user is marked as fetched.
C18_LoadSuccess ==
    [][\A r \in inflight :
         (r.kind = "GET" /\ r.stage = "ok" /\ Settles(r))
         => /\ Len(tasks') = Len(r.resp)
            /\ \A i \in 1..Len(r.resp) : \E j \in 1..Len(tasks') :
                 /\ tasks'[j].id = r.resp[i].id
                 /\ tasks'[j].text = r.resp[i].text
                 /\ tasks'[j].completed = r.resp[i].completed
                 /\ tasks'[j].user_id = r.resp[i].user_id
                 /\ tasks'[j].created_at = r.resp[i].created_at
                 /\ tasks'[j].status = "none"
            /\ \A j \in 1..Len(tasks') : \E i \in 1..Len(r.resp) :
                 tasks'[j].id = r.resp[i].id
            /\ \A j, k \in 1..Len(tasks') :
                 j < k => tasks'[j].created_at <= tasks'[k].created_at
            /\ r.user \in hasFetched']_vars

\* C18 witness: a list response that held a newly created row after an
\* older one with a later created_at has replaced the collection, the
\* placeholder included (the create's own answer has not been handled yet).
C18_Witness ==
    /\ user \in hasFetched
    /\ Len(tasks) = 2
    /\ tasks[2].id = ServerId(1)
    /\ tasks[1].created_at < tasks[2].created_at
    /\ \E r \in Requests("POST") :
         r.stage = "ok" /\ tasks[1].id = r.resp[1].id

\* C19: an updateTask or toggleComplete on a task with a placeholder id
\* marks the change on the task in the collection and sends nothing, and
\* no PUT request for a placeholder id is ever in flight.
C19_PlaceholderUpdatesStayLocal ==
    [][/\ \A r \in inflight' : r.kind = "PUT" => r.id[1] # "temp"
       /\ (/\ ncalls' = ncalls + 1
           /\ lastCall'.op \in {"update", "toggle"}
           /\ lastCall'.id[1] = "temp"
           /\ user # Null /\ accessToken # Null
           /\ HasId(tasks, lastCall'.id))
          => /\ inflight' = inflight
             /\ \E j \in 1..Len(tasks') :
                  /\ tasks'[j].id = lastCall'.id
                  /\ tasks'[j].status = "pending-update"
                  /\ lastCall'.op = "toggle"
                     => \E i \in 1..Len(tasks) :
                          /\ tasks[i].id = lastCall'.id
                          /\ tasks'[j].completed = ~tasks[i].completed]_vars

\* C19 witness: a placeholder whose create is still in flight was toggled
\* or re-texted: the last invocation returned before its request.
C19_Witness ==
    /\ lastCall.path = "local"
    /\ \E r \in Requests("POST") : r.tempId = lastCall.id
    /\ HasId(tasks, lastCall.id)
    /\ tasks[FindIndex(tasks, lastCall.id)].status = "pending-update"

\* C20: every onAddTask or onSaveEdit call of NewTaskInput carries a text
\* that is not empty, neither starts nor ends with white space, and is the
\* typed text without its leading and trailing white space; when the typed
\* text is empty or all white space the primary action calls onCancel and
\* nothing else; and while editing with such a text the primary action
\* cannot be taken.
C20_SubmitsOnlyTrimmedText ==
    [][/\ \A k \in 1..Len(emitted'.calls) :
            emitted'.calls[k].fn \in {"onAddTask", "onSaveEdit"}
            => LET t == emitted'.calls[k].text IN
               /\ t # <<>>
               /\ t[1] # " " /\ t[Len(t)] # " "
               /\ \E a, b \in 0..Len(taskText) :
                    taskText = [i \in 1..a |-> " "] \o t \o [i \in 1..b |-> " "]
       /\ (emitted'.by = "primary"
             /\ \A k \in 1..Len(taskText) : taskText[k] = " ")
          => emitted'.calls = <<[fn |-> "onCancel", id |-> NoTask,
                                 text |-> <<>>]>>
       /\ (props.isEditing /\ \A k \in 1..Len(taskText) : taskText[k] = " ")
          => emitted'.by # "primary"]_vars

\* C20 witness: Save was pressed on a text with white space on both sides,
\* and onSaveEdit received it without.
C20_Witness ==
    /\ emitted.by = "primary"
    /\ emitted.input = <<" ", "a", " ">>
    /\ Len(emitted.calls) = 2
    /\ emitted.calls[1].fn = "onSaveEdit"
    /\ emitted.calls[1].text = <<"a">>
    /\ emitted.calls[2].fn = "onCancel"

C22_RecoveryEndsOnResetPassword ==
    (~loading /\ seen = <<loading, session, path, hashParamsHandled>>
       /\ hashAtLoad.type = "recovery" /\ navigated # "user")
    => path = "/reset-password"

\* C23: an item in editing mode (the task being edited, or one whose status
\* is pending-delete) is inert: no toggle or delete handler is invoked for
\* it and no click makes it the task being edited; and a delete click on an
\* item outside editing mode invokes the delete handler without changing the
\* task being edited.
C23_EditingItemIsInert ==
    [][/\ (ncalls' = ncalls + 1 /\ lastCall'.op \in {"toggle", "delete"})
          => \E i \in 1..Len(tasks) :
                /\ tasks[i].id = lastCall'.id
                /\ editingTask # tasks[i].id
                /\ tasks[i].status # "pending-delete"
       /\ (editingTask' # editingTask /\ editingTask' # NoTask)
          => \E i \in 1..Len(tasks) :
                /\ tasks[i].id = editingTask'
                /\ editingTask # tasks[i].id
                /\ tasks[i].status # "pending-delete"
       /\ (ncalls' = ncalls + 1 /\ lastCall'.op = "delete")
          => editingTask' = editingTask]_vars

\* C23 witness: one task is being edited and another is pending-delete after
\* a delete click that left the task being edited alone.
C23_Witness ==
    /\ lastCall.op = "delete"
    /\ editingTask # NoTask
    /\ editingTask # lastCall.id
    /\ \E i, j \in 1..Len(tasks) :
          /\ tasks[i].id = editingTask
          /\ tasks[j].id = lastCall.id
          /\ tasks[j].status = "pending-delete"

\* C24: the provider starts with loading true and no session (hence no
\* user), and the step in which the initial getSession call settles, with a
\* session, with none or with an error, leaves loading false.
C24_LoadingResolves ==
    /\ (loading = TRUE /\ session = Null /\ initialSessionFetched = FALSE)
    /\ [][(~initialSessionFetched /\ initialSessionFetched') => ~loading']_vars

\* C24 witness: getSession has settled without a session (none found, or an
\* error) before any auth event, and loading is false.
C24_Witness ==
    /\ initialSessionFetched
    /\ ~loading
    /\ session = Null
    /\ ~signing
    /\ seen # Deps

\* C25: whenever useAuth() starts yielding values with loading false and
\* the user or the token absent (a user without a token included), the
\* collection is cleared and the task-loading flag is false.
C25_LoadTasksPreconditions ==
    [][(/\ <<user', accessToken', authLoading'>> #
           <<user, accessToken, authLoading>>
        /\ ~authLoading'
        /\ (user' = Null \/ accessToken' = Null))
       => (tasks' = <<>> /\ ~fetchingTasks')]_vars

\* C26: a delete invoked by a signed-in user on a placeholder whose status
\* is pending-add keeps every task of the collection, changes only that
\* task's status, to pending-delete, and issues no request; and while the
\* placeholder is pending-delete and its create is in flight no DELETE for
\* it is in flight.
C26_DeferredDelete ==
    /\ [][(/\ ncalls' = ncalls + 1
           /\ lastCall'.op = "delete"
           /\ user # Null /\ accessToken # Null
           /\ \E i \in 1..Len(tasks) :
                 /\ tasks[i].id = lastCall'.id
                 /\ IsTemp(tasks[i].id)
                 /\ tasks[i].status = "pending-add")
          => /\ inflight' = inflight
             /\ Len(tasks') = Len(tasks)
             /\ \A i \in 1..Len(tasks) :
                   IF tasks[i].id = lastCall'.id
                   THEN tasks'[i] = [tasks[i] EXCEPT !.status = "pending-delete"]
                   ELSE tasks'[i] = tasks[i]]_vars
    /\ [](\A i \in 1..Len(tasks) :
            (/\ tasks[i].status = "pending-delete"
             /\ \E p \in Requests("POST") : p.tempId = tasks[i].id)
            => ~\E d \in Requests("DELETE") : d.id = tasks[i].id)

\* C26 witness: a placeholder marked pending-delete by a deferred delete,
\* its create still in flight and nothing else sent.
C26_Witness ==
    /\ lastCall.op = "delete"
    /\ lastCall.path = "deferred"
    /\ \E i \in 1..Len(tasks) :
          /\ tasks[i].id = lastCall.id
          /\ tasks[i].status = "pending-delete"
          /\ \E p \in Requests("POST") : p.tempId = tasks[i].id
    /\ Requests("DELETE") = {}

\* C27: no step sends more than one request; a step that settles a failed
\* request sends none; and a request is sent only by a step that invokes an
\* operation (a handler call, or the load effect on a change of the auth
\* values) or by the step that settles a successful create, which may send
\* the DELETE a deferred delete asked for.
C27_NoAutomaticRetries ==
    [][LET new == {r \in inflight' \ inflight : r.stage = "sent"} IN
       /\ Cardinality(new) <= 1
       /\ (\E r \in inflight : r.stage = "fail" /\ Settles(r)) => new = {}
       /\ new # {} =>
            \/ ncalls' = ncalls + 1
            \/ nauth' = nauth + 1
            \/ /\ \E r \in inflight :
                     r.kind = "POST" /\ r.stage = "ok" /\ Settles(r)
               /\ \A d \in new : d.kind = "DELETE"]_vars

\* C27 witness: the only request sent, a create, failed and was settled: the
\* placeholder is gone, the server holds no new row and nothing is in flight.
C27_Witness ==
    /\ ncalls = 1
    /\ lastCall.op = "add"
    /\ lastCall.path = "sent"
    /\ inflight = {}
    /\ ~\E i \in 1..Len(tasks) : tasks[i].id = lastCall.id
    /\ serverTasks = InitialRows

\* C28: once every request sent has settled (nothing is in flight), and so
\* every create has settled, no task of the collection carries a
\* placeholder id.
C28_NoPlaceholderAfterCreateSettles ==
    inflight = {} => \A i \in 1..Len(tasks) : tasks[i].id[1] # "temp"

\* C29: whenever an update or toggle request for a task is in flight (sent
\* and not yet settled) and a task with that id is in the collection, that
\* task's status is pending-update.
C29_PendingMarkerTracksRequests ==
    \A r \in Requests("PUT") : \A i \in 1..Len(tasks) :
        tasks[i].id = r.id => tasks[i].status = "pending-update"

\* C30: for a signed-in user whose list has been loaded, once nothing is in
\* flight the collection holds exactly the tasks the server holds for that
\* user, each with the server's text and completed value.
C30_QuiescentConsistency ==
    (/\ user # Null /\ accessToken # Null /\ ~authLoading
     /\ inflight = {}
     /\ ~fetchingTasks
     /\ AlreadyFetched(user))
    => {<<tasks[i].id, tasks[i].text, tasks[i].completed>> :
            i \in 1..Len(tasks)}
       = {<<serverTasks[k].id, serverTasks[k].text, serverTasks[k].completed>> :
            k \in {j \in 1..Len(serverTasks) : serverTasks[j].user_id = user}}

====
